---- MODULE Spec2Model ----
(***************************************************************************)
(* The Environments component of core/delivery/delivery.module.js.         *)
(*                                                                         *)
(* The component reads a data source (status, loaded, data), the router    *)
(* params and the global SETTINGS, keeps five useMemo cells, renders one   *)
(* view and emits navigation calls (go) from two callbacks.                *)
(*                                                                         *)
(* JavaScript values:                                                      *)
(*   - an object is a function from its own keys to values, so a missing   *)
(*     key is a key outside DOMAIN;                                        *)
(*   - reading a string property gives a set: {} is undefined, {s} is s;   *)
(*   - null and undefined, where an object may stand, are the two records  *)
(*     Null and Undefined.                                                 *)
(***************************************************************************)
EXTENDS Naturals, Sequences, FiniteSets

VARIABLES
    status,                  \* useDataSource(...).status
    loaded,                  \* useDataSource(...).loaded
    data,                    \* useDataSource(...).data
    params,                  \* useCurrentStateAndParams().params
    settings,                \* SETTINGS
    isFiltersOpen,           \* useState(false)
    resourcesById,           \* useMemo cell, line 78
    resourcesByEnvironment,  \* useMemo cell, line 79
    selectedVersion,         \* useMemo cell, line 88
    selectedArtifactDetails, \* useMemo cell, line 92
    selectedVersionDetails,  \* useMemo cell, line 98
    view,                    \* what the last render returned
    goCalls,                 \* the calls of go(...) made so far, in order
    clicked                  \* the argument of versionSelected while it runs, else Null

inputs == <<status, loaded, data, params, settings>>
local  == <<isFiltersOpen, resourcesById, resourcesByEnvironment, selectedVersion,
            selectedArtifactDetails, selectedVersionDetails>>
vars   == <<status, loaded, data, params, settings, isFiltersOpen, resourcesById,
            resourcesByEnvironment, selectedVersion, selectedArtifactDetails,
            selectedVersionDetails, view, goCalls, clicked>>

----------------------------------------------------------------------------
(* Bounds and input pools *)

MaxVersions == 1
MaxEnvs     == 1
MaxGoCalls  == 1

Statuses      == {"NOT_INITIALIZED", "FETCHED", "ERROR"}
Versions      == {"v1", "v2"}
ArtifactTypes == {"docker"}
ArtifactNames == {"app"}
EnvNames      == {"prod", "test"}
ResourceIds   == {"r1", "r2"}
CustomUrl     == "https://docs.example/getting-started"

\* the sequences over S of length at most n that repeat no element
DistinctSeqs(S, n) ==
    UNION { { q \in [1..k -> S] : \A i, j \in 1..k : i # j => q[i] # q[j] } : k \in 0..n }

Null      == [null |-> TRUE]
Undefined == [undefined |-> TRUE]

VersionLists == DistinctSeqs({ [version |-> v] : v \in Versions }, MaxVersions)
ArtifactPool == { [type |-> t, name |-> n, versions |-> vs] :
                    t \in ArtifactTypes, n \in ArtifactNames, vs \in VersionLists }
ArtifactLists ==
    { q \in DistinctSeqs(ArtifactPool, Cardinality(ArtifactTypes \X ArtifactNames)) :
        \A i, j \in DOMAIN q : i # j => <<q[i].type, q[i].name>> # <<q[j].type, q[j].name>> }

EnvPool == { [name |-> n, resources |-> ids] :
               n \in EnvNames, ids \in DistinctSeqs(ResourceIds, Cardinality(ResourceIds)) }
EnvLists ==
    { q \in DistinctSeqs(EnvPool, MaxEnvs) :
        \A i, j \in DOMAIN q : i # j => q[i].name # q[j].name }
ResourceLists == DistinctSeqs({ [id |-> r] : r \in ResourceIds }, Cardinality(ResourceIds))

\* data of an application whose artifacts vary
ArtifactData ==
    { [environments |-> <<>>, resources |-> <<>>, artifacts |-> a, hasManagedResources |-> h] :
        a \in ArtifactLists, h \in BOOLEAN }
\* data of an application whose environments and resources vary
ResourceData ==
    { [environments |-> e, resources |-> r, artifacts |-> <<>>, hasManagedResources |-> TRUE] :
        e \in EnvLists, r \in ResourceLists }

\* router params: "application" is always there, each of type, name, version may be missing
ParamsPool ==
    { p \in UNION { [K -> {"", "docker", "app", "v1"}] :
                      K \in { {"application"} \cup S : S \in SUBSET {"type", "name", "version"} } } :
        /\ p["application"] = "app"
        /\ "type" \in DOMAIN p => p["type"] = "docker"
        /\ "name" \in DOMAIN p => p["name"] = "app"
        /\ "version" \in DOMAIN p => p["version"] \in {"", "v1"} }

SettingsPool ==
    { [managedDelivery |-> Undefined],
      [managedDelivery |-> [gettingStartedUrl |-> ""]],
      [managedDelivery |-> [gettingStartedUrl |-> CustomUrl]] }

----------------------------------------------------------------------------
(* Program constants *)

CONTENT_WIDTH == 1200
defaultGettingStartedUrl == "https://www.spinnaker.io/guides/user/managed-delivery/getting-started/"

----------------------------------------------------------------------------
(* JavaScript helpers *)

\* o.k for a string property: {} when the key is missing (undefined)
Prop(o, k) == IF k \in DOMAIN o THEN {o[k]} ELSE {}

\* truthiness of a string-or-undefined value
Truthy(v) == v # {} /\ v # {""}

\* truthiness of an object-or-null-or-undefined value
IsObject(x) == x # Null /\ x # Undefined

\* pick that forgets to restrict: the whole object
pick_WholeObject(o, keys) == o

\* lodash pick(object, keys): the object restricted to the keys it has
pick(o, keys) == [k \in keys \cap DOMAIN o |-> o[k]]

\* lodash keyBy(collection, 'id'): the last element of each id wins
keyBy(collection) ==
    [i \in { collection[j].id : j \in DOMAIN collection } |->
        collection[CHOOSE j \in DOMAIN collection :
                      /\ collection[j].id = i
                      /\ \A k \in DOMAIN collection : collection[k].id = i => k <= j]]

\* byId[id]: undefined when no resource has that id
Lookup(byId, id) == IF id \in DOMAIN byId THEN byId[id] ELSE Undefined

\* Array.prototype.find, hits being the indices whose element passes the test: the
\* first such element, else undefined
Find(array, hits) ==
    IF hits = {} THEN Undefined
    ELSE array[CHOOSE j \in hits : \A k \in hits : j <= k]

\* selectedVersion?.k
OptProp(x, k) == IF IsObject(x) THEN Prop(x, k) ELSE {}

----------------------------------------------------------------------------
(* The values the five useMemo callbacks compute *)

ComputeResourcesById(resources) == keyBy(resources)

RECURSIVE ReduceEnvironments(_, _, _)
ReduceEnvironments(environments, byId, byEnvironment) ==
    IF environments = <<>> THEN byEnvironment
    ELSE LET name        == Head(environments).name
             resourceIds == Head(environments).resources
             entry       == [j \in DOMAIN resourceIds |-> Lookup(byId, resourceIds[j])]
         IN  ReduceEnvironments(Tail(environments), byId,
                 [n \in DOMAIN byEnvironment \cup {name} |->
                     IF n = name THEN entry ELSE byEnvironment[n]])

ComputeResourcesByEnvironment(environments, byId) ==
    ReduceEnvironments(environments, byId, [n \in {} |-> <<>>])

ComputeSelectedVersion(p) ==
    IF Truthy(Prop(p, "version")) THEN pick(p, {"type", "name", "version"}) ELSE Null

ComputeSelectedArtifactDetails(sv, artifacts) ==
    IF ~IsObject(sv) THEN sv
    ELSE Find(artifacts, { j \in DOMAIN artifacts :
                              /\ {artifacts[j].type} = Prop(sv, "type")
                              /\ {artifacts[j].name} = Prop(sv, "name") })

\* selectedArtifactDetails?.versions.find(...): reading selectedVersion.version of a
\* null selectedVersion is a TypeError, see MemoThrows
ComputeSelectedVersionDetails(sv, sad) ==
    IF ~IsObject(sad) THEN Undefined
    ELSE Find(sad.versions, { j \in DOMAIN sad.versions :
                                {sad.versions[j].version} = OptProp(sv, "version") })

\* useMemo: the cached value unless a dependency changed
useMemo(cached, depsChanged, fresh) == IF depsChanged THEN fresh ELSE cached

----------------------------------------------------------------------------
(* What the component returns *)

NoLink == ""

\* the link without the lookup in SETTINGS
gettingStartedLink_IgnoresSettings(set) == defaultGettingStartedUrl

\* SETTINGS.managedDelivery?.gettingStartedUrl || defaultGettingStartedUrl
gettingStartedLink(set) ==
    LET url == OptProp(set.managedDelivery, "gettingStartedUrl")
    IN  IF Truthy(url) THEN CHOOSE u \in url : TRUE ELSE defaultGettingStartedUrl

totalContentWidth(filtersOpen) ==
    IF filtersOpen THEN CONTENT_WIDTH + 248 ELSE CONTENT_WIDTH

ErrorView     == [elements |-> {"errorMessage"}, link |-> NoLink, width |-> 0, threw |-> FALSE]
LoadingView   == [elements |-> {"Spinner"}, link |-> NoLink, width |-> 0, threw |-> FALSE]
UnmanagedView(link) ==
    [elements |-> {"gettingStartedGuide"}, link |-> link, width |-> 0, threw |-> FALSE]
PopulatedView(column, width) ==
    [elements |-> {"ArtifactsList"} \cup column, link |-> NoLink, width |-> width, threw |-> FALSE]
\* a TypeError thrown while rendering: nothing is returned
ThrownView    == [elements |-> {}, link |-> NoLink, width |-> 0, threw |-> TRUE]

\* the return with the loaded check ahead of the loadFailure check
EnvironmentsReturn_LoadingFirst(st, ld, d, set, filtersOpen, sv, sad) ==
    IF ~ld THEN LoadingView
    ELSE IF st = "ERROR" THEN ErrorView
    ELSE IF ~d.hasManagedResources THEN UnmanagedView(gettingStartedLink(set))
    ELSE IF ~IsObject(sv)
         THEN PopulatedView({"EnvironmentsList"}, totalContentWidth(filtersOpen))
    ELSE IF ~IsObject(sad) THEN ThrownView
    ELSE PopulatedView({"ArtifactDetail"}, totalContentWidth(filtersOpen))

\* the return without the loaded check, unmanaged being !hasManagedResources
EnvironmentsReturn_NoLoadedCheck(st, ld, d, set, filtersOpen, sv, sad) ==
    IF st = "ERROR" THEN ErrorView
    ELSE IF ~d.hasManagedResources THEN UnmanagedView(gettingStartedLink(set))
    ELSE IF ~IsObject(sv)
         THEN PopulatedView({"EnvironmentsList"}, totalContentWidth(filtersOpen))
    ELSE IF ~IsObject(sad) THEN ThrownView
    ELSE PopulatedView({"ArtifactDetail"}, totalContentWidth(filtersOpen))

\* lines 103-175, given the values of the hooks
EnvironmentsReturn(st, ld, d, set, filtersOpen, sv, sad) ==
    LET loadFailure == st = "ERROR"
        unmanaged   == ld /\ ~d.hasManagedResources
    IN  IF loadFailure THEN ErrorView
        ELSE IF ~ld THEN LoadingView
        ELSE IF unmanaged THEN UnmanagedView(gettingStartedLink(set))
        ELSE IF ~IsObject(sv)
             THEN PopulatedView({"EnvironmentsList"}, totalContentWidth(filtersOpen))
        ELSE IF ~IsObject(sad) THEN ThrownView   \* selectedArtifactDetails.versions
        ELSE PopulatedView({"ArtifactDetail"}, totalContentWidth(filtersOpen))

\* One call of Environments(): the hooks in order, then the return.  It reads the new
\* inputs (primed) and the memo cells of the previous render (unprimed); dataFresh
\* says that the data source handed over new arrays.
Render(dataFresh) ==
    LET byId     == useMemo(resourcesById, dataFresh, ComputeResourcesById(data'.resources))
        byIdNew  == dataFresh
        byEnv    == useMemo(resourcesByEnvironment, dataFresh \/ byIdNew,
                            ComputeResourcesByEnvironment(data'.environments, byId))
        svDeps   == \E k \in {"type", "name", "version"} : Prop(params', k) # Prop(params, k)
        sv       == useMemo(selectedVersion, svDeps, ComputeSelectedVersion(params'))
        \* Object.is(previous selectedVersion, sv): a recomputed object is a new one
        svSame   == ~svDeps \/ (sv = Null /\ selectedVersion = Null)
        sadDeps  == \/ OptProp(sv, "type") # OptProp(selectedVersion, "type")
                    \/ OptProp(sv, "name") # OptProp(selectedVersion, "name")
                    \/ dataFresh
        sad      == useMemo(selectedArtifactDetails, sadDeps,
                            ComputeSelectedArtifactDetails(sv, data'.artifacts))
        \* Object.is(previous selectedArtifactDetails, sad): elements of new arrays are new
        sadSame  == sad = selectedArtifactDetails /\ (IsObject(sad) => ~dataFresh)
        svdDeps  == ~svSame \/ ~sadSame
        svd      == useMemo(selectedVersionDetails, svdDeps,
                            ComputeSelectedVersionDetails(sv, sad))
        \* selectedVersion.version read from a null selectedVersion inside the callback
        memoThrows == svdDeps /\ IsObject(sad) /\ ~IsObject(sv)
    IN  /\ resourcesById' = byId
        /\ resourcesByEnvironment' = byEnv
        /\ selectedVersion' = sv
        /\ selectedArtifactDetails' = sad
        /\ selectedVersionDetails' = svd
        /\ view' = IF memoThrows THEN ThrownView
                   ELSE EnvironmentsReturn(status', loaded', data', settings', isFiltersOpen',
                                           sv, sad)

\* the triples ArtifactsList offers for clicking: every version of every artifact shown
ClickableVersions(artifacts) ==
    UNION { { [type |-> artifacts[i].type, name |-> artifacts[i].name,
               version |-> artifacts[i].versions[j].version] :
                j \in DOMAIN artifacts[i].versions } : i \in DOMAIN artifacts }

NoParams == [k \in {} |-> ""]

\* the component is gone once a render has thrown
Mounted == ~view.threw

----------------------------------------------------------------------------
(* Initial state: the first render, which computes every memo cell *)

FirstRender ==
    LET sv  == ComputeSelectedVersion(params)
        sad == ComputeSelectedArtifactDetails(sv, data.artifacts)
    IN  /\ isFiltersOpen = FALSE
        /\ resourcesById = ComputeResourcesById(data.resources)
        /\ resourcesByEnvironment =
               ComputeResourcesByEnvironment(data.environments, ComputeResourcesById(data.resources))
        /\ selectedVersion = sv
        /\ selectedArtifactDetails = sad
        /\ selectedVersionDetails = ComputeSelectedVersionDetails(sv, sad)
        /\ view = EnvironmentsReturn(status, loaded, data, settings, FALSE, sv, sad)
        /\ goCalls = <<>>
        /\ clicked = Null

\* the data of a data source that has not loaded yet
DefaultData ==
    [environments |-> <<>>, resources |-> <<>>, artifacts |-> <<>>, hasManagedResources |-> FALSE]

\* the component mounts on any url, before the data source has loaded
Init ==
    /\ status = "NOT_INITIALIZED"
    /\ loaded = FALSE
    /\ data = DefaultData
    /\ params \in ParamsPool
    /\ settings \in SettingsPool
    /\ FirstRender

InitResources ==
    /\ status = "NOT_INITIALIZED"
    /\ loaded = FALSE
    /\ data = DefaultData
    /\ params = [application |-> "app"]
    /\ settings = [managedDelivery |-> Undefined]
    /\ FirstRender

----------------------------------------------------------------------------
(* Actions *)

\* the data source publishes new data: a re-render with new arrays
DataSourceUpdate(d) ==
    /\ Mounted
    /\ data' = d
    /\ UNCHANGED <<status, loaded, params, settings, isFiltersOpen, goCalls>>
    /\ clicked' = Null
    /\ Render(TRUE)

\* the data source publishes its status and loaded flags: a re-render with the same data
StatusChange(st, ld) ==
    /\ Mounted
    /\ <<st, ld>> # <<status, loaded>>
    /\ status' = st
    /\ loaded' = ld
    /\ UNCHANGED <<data, params, settings, isFiltersOpen, goCalls>>
    /\ clicked' = Null
    /\ Render(FALSE)

\* the router publishes new params: a re-render with the same data
RouteChange(p) ==
    /\ Mounted
    /\ p # params
    /\ params' = p
    /\ UNCHANGED <<status, loaded, data, settings, isFiltersOpen, goCalls>>
    /\ clicked' = Null
    /\ Render(FALSE)

\* versionSelected without the isEqual test
versionSelected_AlwaysGoes(clickedVersion) ==
    /\ Mounted
    /\ "ArtifactsList" \in view.elements
    /\ Len(goCalls) < MaxGoCalls
    /\ goCalls' = Append(goCalls,
           [to |-> IF IsObject(selectedVersion) THEN "." ELSE ".artifactVersion",
            params |-> clickedVersion])
    /\ clicked' = clickedVersion
    /\ UNCHANGED <<inputs, local, view>>

\* ArtifactsList calls versionSelected(clickedVersion), lines 146-150
versionSelected(clickedVersion) ==
    /\ Mounted
    /\ "ArtifactsList" \in view.elements
    /\ IF clickedVersion # selectedVersion
       THEN /\ Len(goCalls) < MaxGoCalls
            /\ goCalls' = Append(goCalls,
                   [to |-> IF IsObject(selectedVersion) THEN "." ELSE ".artifactVersion",
                    params |-> clickedVersion])
       ELSE goCalls' = goCalls
    /\ clicked' = clickedVersion
    /\ UNCHANGED <<inputs, local, view>>

\* ArtifactDetail calls onRequestClose(), line 168
onRequestClose ==
    /\ Mounted
    /\ "ArtifactDetail" \in view.elements
    /\ Len(goCalls) < MaxGoCalls
    /\ goCalls' = Append(goCalls, [to |-> "^", params |-> NoParams])
    /\ clicked' = Null
    /\ UNCHANGED <<inputs, local, view>>

Next ==
    \/ \E d \in ArtifactData : DataSourceUpdate(d)
    \/ \E st \in Statuses, ld \in BOOLEAN : StatusChange(st, ld)
    \/ \E p \in ParamsPool : RouteChange(p)
    \/ \E c \in ClickableVersions(data.artifacts) : versionSelected(c)
    \/ onRequestClose

Spec == Init /\ [][Next]_vars

NextResources ==
    \/ \E d \in ResourceData : DataSourceUpdate(d)
    \/ \E st \in Statuses, ld \in BOOLEAN : StatusChange(st, ld)

SpecResources == InitResources /\ [][NextResources]_vars

----------------------------------------------------------------------------
(* The four view states *)

IsErrorView(v)     == "errorMessage" \in v.elements
IsLoadingView(v)   == "Spinner" \in v.elements
IsUnmanagedView(v) == "gettingStartedGuide" \in v.elements
IsPopulatedView(v) == "ArtifactsList" \in v.elements

SelectionKeys == {"type", "name", "version"}

\* the values the memo cells would have if each were computed now from the current inputs
FreshResourcesById           == ComputeResourcesById(data.resources)
FreshResourcesByEnvironment  == ComputeResourcesByEnvironment(data.environments, FreshResourcesById)
FreshSelectedVersion         == ComputeSelectedVersion(params)
FreshSelectedArtifactDetails == ComputeSelectedArtifactDetails(FreshSelectedVersion, data.artifacts)
FreshSelectedVersionDetails  ==
    ComputeSelectedVersionDetails(FreshSelectedVersion, FreshSelectedArtifactDetails)

----------------------------------------------------------------------------
(* Claims *)

\* C1: for every combination of status, loaded and hasManagedResources the component
\* renders exactly one of the four view states: error, loading, unmanaged, populated.
C1_ExactlyOneViewState ==
    Cardinality({ k \in 1..4 :
        \/ k = 1 /\ IsErrorView(view)
        \/ k = 2 /\ IsLoadingView(view)
        \/ k = 3 /\ IsUnmanagedView(view)
        \/ k = 4 /\ IsPopulatedView(view) }) = 1

\* C2: whenever status is ERROR the component renders only the error message, whatever
\* loaded and hasManagedResources are, and no go call is made on entering or while in
\* that state.
C2_ErrorRendersOnlyError ==
    /\ [](status = "ERROR" => view = ErrorView)
    /\ [][(status = "ERROR" \/ status' = "ERROR") => goCalls' = goCalls]_vars

C2_Witness ==
    /\ status = "ERROR"
    /\ loaded
    /\ data.hasManagedResources
    /\ IsObject(selectedVersion)
    /\ view = ErrorView

\* C3 as stated: in every state in which loaded is false the rendered view is the
\* spinner and nothing else.
C3_NotLoadedRendersSpinner ==
    ~loaded => view = LoadingView

\* C3 amended: in every state in which loaded is false and status is not ERROR the
\* rendered view is the spinner and nothing else.
C3_NotLoadedNoErrorRendersSpinner ==
    (~loaded /\ status # "ERROR") => view = LoadingView

C3_Witness ==
    /\ ~loaded
    /\ status # "ERROR"
    /\ data.hasManagedResources
    /\ view = LoadingView

\* the link the unmanaged guidance must show: the configured url, else the default
ExpectedLink ==
    LET md == settings.managedDelivery
    IN  IF md # Undefined /\ md.gettingStartedUrl # ""
        THEN md.gettingStartedUrl
        ELSE "https://www.spinnaker.io/guides/user/managed-delivery/getting-started/"

\* C4 as stated: loaded with hasManagedResources = false renders the unmanaged guidance
\* with the configured getting-started url, or the default one when none is configured.
C4_UnmanagedRendersGuidance ==
    (loaded /\ ~data.hasManagedResources) =>
        /\ view.elements = {"gettingStartedGuide"}
        /\ view.link = ExpectedLink

\* C4 amended: the same, provided status is not ERROR.
C4_UnmanagedNoErrorRendersGuidance ==
    (status # "ERROR" /\ loaded /\ ~data.hasManagedResources) =>
        /\ view.elements = {"gettingStartedGuide"}
        /\ view.link = ExpectedLink

C4_Witness ==
    /\ status # "ERROR"
    /\ loaded
    /\ ~data.hasManagedResources
    /\ settings.managedDelivery = [gettingStartedUrl |-> CustomUrl]
    /\ view.link = CustomUrl

\* C5: resourcesByEnvironment maps each environment name to one entry per resource id
\* listed under it, in the listed order, each entry being the resource summary of that
\* id: none missing, none undefined, none of another id.
C5_GroupsEveryResource ==
    \A i \in DOMAIN data.environments :
        LET env == data.environments[i]
        IN  /\ env.name \in DOMAIN resourcesByEnvironment
            /\ DOMAIN resourcesByEnvironment[env.name] = DOMAIN env.resources
            /\ \A j \in DOMAIN env.resources :
                   /\ resourcesByEnvironment[env.name][j] # Undefined
                   /\ resourcesByEnvironment[env.name][j] = [id |-> env.resources[j]]

\* C6 as stated: when the params contain type, name and version, selectedVersion is
\* exactly the triple of these three params and holds no other param.
C6_SelectedVersionIsTriple ==
    SelectionKeys \subseteq DOMAIN params =>
        selectedVersion = [type |-> params["type"], name |-> params["name"],
                           version |-> params["version"]]

\* C6 amended: the same, provided the version param is not the empty string.
C6_SelectedVersionIsTripleNonEmpty ==
    (SelectionKeys \subseteq DOMAIN params /\ params["version"] # "") =>
        selectedVersion = [type |-> params["type"], name |-> params["name"],
                           version |-> params["version"]]

\* the user clicked a version, the router went there, and the selection is that version
C6_Witness ==
    /\ Len(goCalls) = 1
    /\ goCalls[1].to = ".artifactVersion"
    /\ SelectionKeys \subseteq DOMAIN params
    /\ "application" \in DOMAIN params
    /\ selectedVersion = goCalls[1].params

\* C7: when one of the params type, name, version is absent, selectedVersion is null.
C7_NullWhenAnyAbsent ==
    ~(SelectionKeys \subseteq DOMAIN params) => selectedVersion = Null

\* C8: a click on a version changes no local state and no input; it makes no go call
\* when the clicked version equals selectedVersion, and otherwise exactly one, with the
\* clicked version as params, to '.artifactVersion' when selectedVersion is null and to
\* '.' otherwise; any step that calls go adds one call and changes nothing else; and
\* selectedVersion changes only in a step that changes the params.
C8_ClickOnlyNavigates ==
    [][/\ clicked' # Null =>
            /\ UNCHANGED <<inputs, local, view>>
            /\ IF clicked' = selectedVersion
               THEN goCalls' = goCalls
               ELSE goCalls' = Append(goCalls,
                        [to |-> IF selectedVersion = Null THEN ".artifactVersion" ELSE ".",
                         params |-> clicked'])
       /\ goCalls' # goCalls =>
            /\ UNCHANGED <<inputs, local, view>>
            /\ Len(goCalls') = Len(goCalls) + 1
            /\ SubSeq(goCalls', 1, Len(goCalls)) = goCalls
       /\ selectedVersion' # selectedVersion => params' # params]_vars

C8_Witness ==
    /\ clicked # Null
    /\ clicked # selectedVersion
    /\ IsObject(selectedVersion)
    /\ goCalls = <<[to |-> ".", params |-> clicked]>>

\* C9: at every render the five memo cells equal the values computed afresh from the
\* current environments, resources, artifacts and params.
C9_MemoCellsAreFresh ==
    /\ resourcesById = FreshResourcesById
    /\ resourcesByEnvironment = FreshResourcesByEnvironment
    /\ selectedVersion = FreshSelectedVersion
    /\ selectedArtifactDetails = FreshSelectedArtifactDetails
    /\ selectedVersionDetails = FreshSelectedVersionDetails

\* C10: whenever the populated layout is rendered with a non-null selectedVersion, an
\* artifact of its type and name is in artifacts, so the render reads the versions of a
\* defined selectedArtifactDetails and does not throw.
C10_SelectedArtifactExists ==
    (status # "ERROR" /\ loaded /\ data.hasManagedResources /\ IsObject(selectedVersion)) =>
        /\ \E i \in DOMAIN data.artifacts :
               /\ {data.artifacts[i].type} = Prop(selectedVersion, "type")
               /\ {data.artifacts[i].name} = Prop(selectedVersion, "name")
        /\ IsObject(selectedArtifactDetails)
        /\ ~view.threw

====
